---- MODULE Spec2Model ----
(***************************************************************************)
(* Model of the pull-request review pipeline of src/src/main.ts (the      *)
(* variant of lines 1-407): analyzeCode / getAIResponse / createComment,  *)
(* getExistingCommentsGraphQL, the duplicate filter, chunkArray and the   *)
(* batch loop of main, run repeatedly against the review threads the      *)
(* hosting platform holds.                                                *)
(***************************************************************************)
EXTENDS Integers, Sequences, FiniteSets, TLC

VARIABLES
  pc,              \* position of main(): start, analyze, call, delay, list, publish, done
  runNo,           \* number of the current workflow run
  filteredDiff,    \* the files of the pull request's diff, after the EXCLUDE filter
  fileIdx,         \* index of the file analyzeCode is at
  attempt,         \* getAIResponse: loop variable of the retry loop
  lastError,       \* getAIResponse: error of the last failed attempt
  attemptLog,      \* model calls and delays made for the current prompt
  aiResult,        \* what getAIResponse returned for the current prompt
  prompted,        \* files a prompt was built for in this run
  modelCalls,      \* files the language model was called for in this run
  comments,        \* analyzeCode: the comments collected so far
  listed,          \* outcome of getExistingCommentsGraphQL in this run
  existingComments,\* result of getExistingCommentsGraphQL
  uniqueComments,  \* comments left by the duplicate filter
  commentBatches,  \* chunkArray(uniqueComments, BATCH_SIZE)
  batchIdx,        \* index of the batch the publishing loop is at
  reviewCalls,     \* the createReview calls made in this run
  status,          \* run status: "ok", or "failed" after core.setFailed
  failure,         \* the error main().catch received
  threads,         \* the review threads the platform holds for the pull request
  publishedEarlier \* (path, line, side) of the comments earlier runs published

vars == << pc, runNo, filteredDiff, fileIdx, attempt, lastError, attemptLog, aiResult,
           prompted, modelCalls, comments, listed, existingComments, uniqueComments,
           commentBatches, batchIdx, reviewCalls, status, failure, threads,
           publishedEarlier >>

\* ---------------------------------------------------------------- constants
maxRetries == 3
retryDelayMs == 1000
BATCH_SIZE == 50
ThreadPageSize == 100
CommentPageSize == 100

\* ------------------------------------------------------------------- bounds
MaxRuns == 2

\* ---------------------------------------------------------------- JS values
\* A JavaScript value in a numeric position: an integer v, the number v + 0.5,
\* a value that converts to NaN (undefined, "abc", NaN), or null.
Int_(n) == [tag |-> "int", v |-> n]
Frac(n) == [tag |-> "frac", v |-> n]
NaNV == [tag |-> "nan", v |-> 0]
NullV == [tag |-> "null", v |-> 0]

\* isNaN(x): Number(x) is NaN; Number(null) is 0
isNaN(x) == x.tag = "nan"

\* x <= 0 with JavaScript's numeric conversion (NaN compares false, null is 0)
LeqZero(x) ==
  CASE x.tag = "int" -> x.v <= 0
    [] x.tag = "frac" -> x.v < 0
    [] x.tag = "null" -> TRUE
    [] OTHER -> FALSE

\* `${x}` of a number
NumToString(x) ==
  CASE x.tag = "int" -> ToString(x.v)
    [] x.tag = "frac" -> IF x.v >= 0 THEN ToString(x.v) \o ".5"
                         ELSE "-" \o ToString(0 - x.v - 1) \o ".5"
    [] x.tag = "null" -> "null"
    [] OTHER -> "NaN"

\* ------------------------------------------------------------ analyzeCode
\* file.to of a parsed file: absent (hasTo = FALSE) or a string
File(p) == [hasTo |-> TRUE, to |-> p]
NoToFile == [hasTo |-> FALSE, to |-> ""]

\* the skip test without the deletion sentinel
SkippedNoSentinel(file) == ~file.hasTo \/ file.to = ""

\* !currentFilePath || currentFilePath === "/dev/null"
Skipped(file) == ~file.hasTo \/ file.to = "" \/ file.to = "/dev/null"

\* ---------------------------------------------------------- getAIResponse
\* response.choices[0].message?.content of a completed call: missing, only
\* white space, text that is no JSON, or a JSON object with or without a
\* reviews member ("none": the call did not complete)
Content(kind, hasReviews, reviews) ==
  [kind |-> kind, hasReviews |-> hasReviews, reviews |-> reviews]

\* the text without the default "{}"
ResTextNoDefault(content) == content

\* content?.trim() || "{}"
ResText(content) ==
  IF content.kind \in {"missing", "blank"} THEN Content("object", FALSE, <<>>)
  ELSE content

\* JSON.parse(res).reviews: throws on everything but the text of an object
ParseThrows(res) == res.kind # "object"
ParsedReviews(res) == [defined |-> res.hasReviews, reviews |-> res.reviews]

\* --------------------------------------------------------- createComment
\* the callback of flatMap: no element for an invalid line number, else one
commentOf(aiResponse) ==
  LET lineNum == aiResponse.lineNumber IN
  IF isNaN(lineNum) \/ LeqZero(lineNum) THEN <<>>
  ELSE << [body |-> aiResponse.reviewComment,
           line |-> lineNum,
           side |-> IF aiResponse.changeType = "+" THEN "RIGHT" ELSE "LEFT"] >>

RECURSIVE createComment(_)
createComment(aiResponses) ==
  IF aiResponses = <<>> THEN <<>>
  ELSE commentOf(Head(aiResponses)) \o createComment(Tail(aiResponses))

\* .map(comment => ({...comment, path: currentFilePath}))
WithPath(cs, path) ==
  [i \in 1..Len(cs) |->
     [body |-> cs[i].body, path |-> path, line |-> cs[i].line, side |-> cs[i].side]]

\* what analyzeCode appends for one file, given what getAIResponse returned
newCommentsForFile(aiResponse, currentFilePath) ==
  IF aiResponse.defined THEN WithPath(createComment(aiResponse.reviews), currentFilePath)
  ELSE <<>>

\* ------------------------------------------------------------- chunkArray
Min(a, b) == IF a <= b THEN a ELSE b

\* array.slice(from, to), 0-based, end exclusive
Slice(array, from, to) == SubSeq(array, from + 1, Min(to, Len(array)))

RECURSIVE chunkFrom(_, _, _)
chunkFrom(array, chunkSize, i) ==
  IF i >= Len(array) THEN <<>>
  ELSE << Slice(array, i, i + chunkSize) >> \o chunkFrom(array, chunkSize, i + chunkSize)

chunkArray(array, chunkSize) == chunkFrom(array, chunkSize, 0)

\* ------------------------------------------- getExistingCommentsGraphQL
\* reviewThreads(first: 100) { nodes { ... comments(first: 100) { nodes } } }
Page(seq, n) == SubSeq(seq, 1, Min(n, Len(seq)))

gqlResponse(ts) ==
  LET page == Page(ts, ThreadPageSize) IN
  [i \in 1..Len(page) |->
     [isOutdated |-> page[i].isOutdated,
      isResolved |-> page[i].isResolved,
      diffSide |-> page[i].diffSide,
      comments |-> Page(page[i].comments, CommentPageSize)]]

\* thread.diffSide === "LEFT" ? "LEFT" : "RIGHT"
threadSide(thread) == IF thread.diffSide = "LEFT" THEN "LEFT" ELSE "RIGHT"

\* the line of the head whatever the side of the thread is
relevantLineNumberHeadOnly(thread, commentNode) == commentNode.actualHeadLine

relevantLineNumber(thread, commentNode) ==
  IF threadSide(thread) = "LEFT" THEN commentNode.originalBaseLine
  ELSE commentNode.actualHeadLine

\* the inner forEach: the comments one thread contributes
RECURSIVE threadComments(_, _)
threadComments(thread, nodes) ==
  IF nodes = <<>> THEN <<>>
  ELSE LET commentNode == Head(nodes)
           line == relevantLineNumber(thread, commentNode)
       IN (IF line.tag = "null" THEN <<>>
           ELSE << [path |-> commentNode.path, line |-> line,
                    body |-> commentNode.body, side |-> threadSide(thread)] >>)
          \o threadComments(thread, Tail(nodes))

\* the outer forEach
RECURSIVE existingOf(_)
existingOf(nodes) ==
  IF nodes = <<>> THEN <<>>
  ELSE (IF ~Head(nodes).isOutdated THEN threadComments(Head(nodes), Head(nodes).comments)
        ELSE <<>>)
       \o existingOf(Tail(nodes))

\* ------------------------------------------------------- duplicate filter
\* the identifier without the side
commentIdentifierNoSide(comment) ==
  comment.path \o ":" \o NumToString(comment.line)

\* `${comment.path}:${comment.line}:${comment.side}`
commentIdentifier(comment) ==
  comment.path \o ":" \o NumToString(comment.line) \o ":" \o comment.side

existingCommentsSet(existing) ==
  { commentIdentifier(existing[i]) : i \in 1..Len(existing) }

isDuplicate(newComment, existing) ==
  commentIdentifier(newComment) \in existingCommentsSet(existing)

RECURSIVE filterUnique(_, _)
filterUnique(cs, existing) ==
  IF cs = <<>> THEN <<>>
  ELSE (IF isDuplicate(Head(cs), existing) THEN <<>> ELSE << Head(cs) >>)
       \o filterUnique(Tail(cs), existing)

\* ------------------------------------------------------------ the platform
\* a review thread as the GraphQL query of getExistingCommentsGraphQL reads it
Thread(outdated, resolved, side, nodes) ==
  [isOutdated |-> outdated, isResolved |-> resolved, diffSide |-> side, comments |-> nodes]

Node(path, body, head, base) ==
  [path |-> path, body |-> body, actualHeadLine |-> head, originalBaseLine |-> base]

\* octokit.pulls.createReview accepts only comments on integer lines
Accepts(batch) == \A i \in 1..Len(batch) : batch[i].line.tag = "int"

\* the threads an accepted review opens: one per comment, at its line and side
PostedThreads(batch) ==
  [i \in 1..Len(batch) |->
     Thread(FALSE, FALSE, batch[i].side,
            << Node(batch[i].path, batch[i].body, batch[i].line, batch[i].line) >>)]

KeyOf(c) == << c.path, c.line, c.side >>

\* ------------------------------------------------------------------ inputs
Cand(l, t, c) == [lineNumber |-> l, changeType |-> t, reviewComment |-> c]

RevOne == << Cand(Int_(42), "+", "Consider renaming x"), Cand(Int_(7), "-", "old") >>
RevMixed ==
  << Cand(Int_(0 - 5), "+", "x"), Cand(Int_(9), "-", "gone"), Cand(Int_(0), "+", "z"),
     Cand(NaNV, "+", "n"), Cand(Frac(2), "+", "f"), Cand(NullV, "-", "u"),
     Cand(Int_(3), "x", "d") >>
RevBulk == [i \in 1..BATCH_SIZE |-> Cand(Int_(i), "+", "bulk")]

Contents ==
  { Content("missing", FALSE, <<>>), Content("blank", FALSE, <<>>),
    Content("garbage", FALSE, <<>>),
    Content("object", FALSE, <<>>), Content("object", TRUE, <<>>),
    Content("object", TRUE, RevOne), Content("object", TRUE, RevMixed),
    Content("object", TRUE, RevBulk) }

\* the diffs of the pull request: no file, a changed file, a deleted file
\* before a changed one, two changed files, files without a new path around
\* a changed one
Diffs ==
  { <<>>,
    << File("app.py") >>,
    << File("/dev/null"), File("app.py") >>,
    << File("app.py"), File("lib.ts") >>,
    << NoToFile, File("lib.ts"), File("/dev/null") >> }

\* the threads the pull request has before the first run: none, or a live
\* thread, an outdated one, a resolved one of two comments that each lack one
\* of the lines, and one whose head and base lines differ
InitialThreads ==
  { <<>>,
    << Thread(FALSE, FALSE, "RIGHT", << Node("app.py", "seen", Int_(42), Int_(42)) >>),
       Thread(TRUE, FALSE, "LEFT", << Node("app.py", "stale", Int_(7), Int_(7)) >>),
       Thread(FALSE, TRUE, "LEFT", << Node("lib.ts", "a", NullV, Int_(7)),
                                      Node("lib.ts", "b", Int_(3), NullV) >>),
       Thread(FALSE, FALSE, "RIGHT", << Node("lib.ts", "c", Int_(3), Int_(5)) >>) >> }

NoError == [kind |-> "none", attempt |-> 0]
NoResult == [state |-> "none", defined |-> FALSE, reviews |-> <<>>]

\* -------------------------------------------------------------------- Init
Init ==
  /\ pc = "start"
  /\ runNo = 1
  /\ filteredDiff \in Diffs
  /\ threads \in InitialThreads
  /\ fileIdx = 1
  /\ attempt = 1
  /\ lastError = NoError
  /\ attemptLog = <<>>
  /\ aiResult = NoResult
  /\ prompted = {}
  /\ modelCalls = {}
  /\ comments = <<>>
  /\ listed = "no"
  /\ existingComments = <<>>
  /\ uniqueComments = <<>>
  /\ commentBatches = <<>>
  /\ batchIdx = 1
  /\ reviewCalls = <<>>
  /\ status = "ok"
  /\ failure = NoError
  /\ publishedEarlier = {}

\* ----------------------------------------------------------------- actions
\* main up to the call of analyzeCode: an empty diff ends the run
Start ==
  /\ pc = "start"
  /\ pc' = IF filteredDiff = <<>> THEN "done" ELSE "analyze"
  /\ UNCHANGED << runNo, filteredDiff, fileIdx, attempt, lastError, attemptLog, aiResult,
                  prompted, modelCalls, comments, listed, existingComments,
                  uniqueComments, commentBatches, batchIdx, reviewCalls, status, failure,
                  threads, publishedEarlier >>

\* the loop head of a main that goes on to publish as soon as a file has
\* yielded comments
NextFileEarly ==
  /\ pc = "analyze"
  /\ attempt' = 1
  /\ lastError' = NoError
  /\ attemptLog' = <<>>
  /\ aiResult' = NoResult
  /\ IF fileIdx > Len(filteredDiff) \/ comments # <<>>
     THEN /\ pc' = IF Len(comments) = 0 THEN "done" ELSE "list"
          /\ UNCHANGED << fileIdx, prompted >>
     ELSE IF Skipped(filteredDiff[fileIdx])
     THEN /\ fileIdx' = fileIdx + 1
          /\ pc' = "analyze"
          /\ UNCHANGED prompted
     ELSE /\ prompted' = prompted \cup { filteredDiff[fileIdx] }
          /\ pc' = "call"
          /\ UNCHANGED fileIdx
  /\ UNCHANGED << runNo, filteredDiff, modelCalls, comments, listed, existingComments,
                  uniqueComments, commentBatches, batchIdx, reviewCalls, status, failure,
                  threads, publishedEarlier >>

\* analyzeCode: the head of the loop over the files, up to the call of
\* getAIResponse; after the last file, main's test of comments.length
NextFile ==
  /\ pc = "analyze"
  /\ attempt' = 1
  /\ lastError' = NoError
  /\ attemptLog' = <<>>
  /\ aiResult' = NoResult
  /\ IF fileIdx > Len(filteredDiff)
     THEN /\ pc' = IF Len(comments) = 0 THEN "done" ELSE "list"
          /\ UNCHANGED << fileIdx, prompted >>
     ELSE IF Skipped(filteredDiff[fileIdx])
     THEN /\ fileIdx' = fileIdx + 1
          /\ pc' = "analyze"
          /\ UNCHANGED prompted
     ELSE /\ prompted' = prompted \cup { filteredDiff[fileIdx] }
          /\ pc' = "call"
          /\ UNCHANGED fileIdx
  /\ UNCHANGED << runNo, filteredDiff, modelCalls, comments, listed, existingComments,
                  uniqueComments, commentBatches, batchIdx, reviewCalls, status, failure,
                  threads, publishedEarlier >>

\* an entry of attemptLog: a model call, with the body it completed with and
\* whether the attempt returned, or a delay
NoContent == Content("none", FALSE, <<>>)
LogCall(ok, body) == [ev |-> "call", ok |-> ok, ms |-> 0, body |-> body]
LogDelay(ms) == [ev |-> "delay", ok |-> FALSE, ms |-> ms, body |-> NoContent]

\* the catch block with the bound of the retry loop off by one
AttemptFailsOneMore(body) ==
  /\ attemptLog' = Append(attemptLog, LogCall(FALSE, body))
  /\ lastError' = [kind |-> IF body.kind = "none" THEN "transport" ELSE "parse",
                   attempt |-> attempt]
  /\ IF attempt <= maxRetries
     THEN /\ pc' = "delay"
          /\ UNCHANGED << aiResult, status, failure >>
     ELSE /\ aiResult' = [state |-> "thrown", defined |-> FALSE, reviews |-> <<>>]
          /\ status' = "failed"
          /\ failure' = lastError'
          /\ pc' = "done"
  /\ UNCHANGED << fileIdx, comments >>

\* the catch block in a loop over the files that isolates the failure of one
\* file: after the last attempt analyzeCode goes on with the next file
AttemptFailsIsolated(body) ==
  /\ attemptLog' = Append(attemptLog, LogCall(FALSE, body))
  /\ lastError' = [kind |-> IF body.kind = "none" THEN "transport" ELSE "parse",
                   attempt |-> attempt]
  /\ IF attempt < maxRetries
     THEN /\ pc' = "delay"
          /\ UNCHANGED << aiResult, fileIdx >>
     ELSE /\ aiResult' = [state |-> "thrown", defined |-> FALSE, reviews |-> <<>>]
          /\ fileIdx' = fileIdx + 1
          /\ pc' = "analyze"
  /\ UNCHANGED << comments, status, failure >>

\* getAIResponse: the catch block of one attempt; after the last attempt the
\* error is thrown through analyzeCode and main to main().catch
AttemptFails(body) ==
  /\ attemptLog' = Append(attemptLog, LogCall(FALSE, body))
  /\ lastError' = [kind |-> IF body.kind = "none" THEN "transport" ELSE "parse",
                   attempt |-> attempt]
  /\ IF attempt < maxRetries
     THEN /\ pc' = "delay"
          /\ UNCHANGED << aiResult, status, failure >>
     ELSE /\ aiResult' = [state |-> "thrown", defined |-> FALSE, reviews |-> <<>>]
          /\ status' = "failed"
          /\ failure' = lastError'
          /\ pc' = "done"
  /\ UNCHANGED << fileIdx, comments >>

\* getAIResponse returns JSON.parse(res).reviews; analyzeCode maps it to the
\* file's comments and goes on to the next file
AttemptReturns(content) ==
  LET res == ResText(content)
      aiResponse == ParsedReviews(res)
  IN /\ attemptLog' = Append(attemptLog, LogCall(TRUE, content))
     /\ aiResult' = [state |-> "returned", defined |-> aiResponse.defined,
                     reviews |-> aiResponse.reviews]
     /\ comments' = comments \o newCommentsForFile(aiResponse, filteredDiff[fileIdx].to)
     /\ fileIdx' = fileIdx + 1
     /\ pc' = "analyze"
     /\ UNCHANGED << lastError, status, failure >>

\* one attempt of the retry loop of getAIResponse
AICall ==
  /\ pc = "call"
  /\ modelCalls' = modelCalls \cup { filteredDiff[fileIdx] }
  /\ \/ AttemptFails(NoContent)
     \/ \E content \in Contents :
          IF ParseThrows(ResText(content)) THEN AttemptFails(content)
          ELSE AttemptReturns(content)
  /\ UNCHANGED << runNo, filteredDiff, attempt, prompted, listed, existingComments,
                  uniqueComments, commentBatches, batchIdx, reviewCalls, threads,
                  publishedEarlier >>

\* getAIResponse: the delay between two attempts
Delay ==
  /\ pc = "delay"
  /\ attemptLog' = Append(attemptLog, LogDelay(retryDelayMs))
  /\ attempt' = attempt + 1
  /\ pc' = "call"
  /\ UNCHANGED << runNo, filteredDiff, fileIdx, lastError, aiResult, prompted, modelCalls,
                  comments, listed, existingComments, uniqueComments, commentBatches,
                  batchIdx, reviewCalls, status, failure, threads, publishedEarlier >>

\* getExistingCommentsGraphQL as main uses it: a failed query is caught, sets
\* the failed status and yields no existing comment
existingAfter(ok, ts) == IF ok THEN existingOf(gqlResponse(ts)) ELSE <<>>
statusAfter(ok, st) == IF ok THEN st ELSE "failed"

\* main: list the existing comments, filter the duplicates, cut the batches
ListThreads ==
  /\ pc = "list"
  /\ \E ok \in BOOLEAN :
       /\ listed' = IF ok THEN "ok" ELSE "failed"
       /\ existingComments' = existingAfter(ok, threads)
       /\ status' = statusAfter(ok, status)
  /\ uniqueComments' = filterUnique(comments, existingComments')
  /\ commentBatches' = chunkArray(uniqueComments', BATCH_SIZE)
  /\ batchIdx' = 1
  /\ pc' = IF commentBatches' = <<>> THEN "done" ELSE "publish"
  /\ UNCHANGED << runNo, filteredDiff, fileIdx, attempt, lastError, attemptLog, aiResult,
                  prompted, modelCalls, comments, reviewCalls, failure, threads,
                  publishedEarlier >>

\* createReviewComment
ReviewCall(batch, ok) == [comments |-> batch, event |-> "COMMENT", ok |-> ok]

\* main: one round of the loop over the batches; a failed createReview is
\* thrown to main().catch
afterBatch(ok, idx, n) == IF ok /\ idx < n THEN "publish" ELSE "done"

Publish ==
  /\ pc = "publish"
  /\ LET batch == commentBatches[batchIdx] IN
     \E ok \in BOOLEAN :
       /\ ok => Accepts(batch)
       /\ reviewCalls' = Append(reviewCalls, ReviewCall(batch, ok))
       /\ threads' = IF ok THEN threads \o PostedThreads(batch) ELSE threads
       /\ status' = IF ok THEN status ELSE "failed"
       /\ failure' = IF ok THEN failure ELSE [kind |-> "createReview", attempt |-> batchIdx]
       /\ batchIdx' = IF ok THEN batchIdx + 1 ELSE batchIdx
       /\ pc' = afterBatch(ok, batchIdx, Len(commentBatches))
  /\ UNCHANGED << runNo, filteredDiff, fileIdx, attempt, lastError, attemptLog, aiResult,
                  prompted, modelCalls, comments, listed, existingComments,
                  uniqueComments, commentBatches, publishedEarlier >>

\* the keys of the comments the platform accepted in this run
PublishedNow ==
  UNION { { KeyOf(reviewCalls[k].comments[i]) : i \in 1..Len(reviewCalls[k].comments) }
          : k \in { j \in 1..Len(reviewCalls) : reviewCalls[j].ok } }

\* the workflow is triggered again for the same pull request
NewRun ==
  /\ pc = "done"
  /\ runNo < MaxRuns
  /\ runNo' = runNo + 1
  /\ publishedEarlier' = publishedEarlier \cup PublishedNow
  /\ pc' = "start"
  /\ fileIdx' = 1
  /\ attempt' = 1
  /\ lastError' = NoError
  /\ attemptLog' = <<>>
  /\ aiResult' = NoResult
  /\ prompted' = {}
  /\ modelCalls' = {}
  /\ comments' = <<>>
  /\ listed' = "no"
  /\ existingComments' = <<>>
  /\ uniqueComments' = <<>>
  /\ commentBatches' = <<>>
  /\ batchIdx' = 1
  /\ reviewCalls' = <<>>
  /\ status' = "ok"
  /\ failure' = NoError
  /\ UNCHANGED << filteredDiff, threads >>

Next == Start \/ NextFile \/ AICall \/ Delay \/ ListThreads \/ Publish \/ NewRun

Spec == Init /\ [][Next]_vars

\* ============================================================== properties
CallsIn(log) == { i \in 1..Len(log) : log[i].ev = "call" }

\* C1: for every prompt the language model is called at most 3 times; a call
\* is followed by another only if it failed, and then a delay of 1000 ms lies
\* between the two; the first attempt that succeeds ends the loop with its
\* result; when 3 attempts have failed the error of the third is thrown and the
\* run ends with failed status.
C1_RetryLoop ==
  LET n == Len(attemptLog) IN
  /\ Cardinality(CallsIn(attemptLog)) <= 3
  /\ \A i \in 1..n :
       /\ (i % 2 = 1) => attemptLog[i].ev = "call"
       /\ (i % 2 = 0) => attemptLog[i].ev = "delay" /\ attemptLog[i].ms = 1000
       /\ (i < n /\ attemptLog[i].ev = "call") => ~attemptLog[i].ok
  /\ (n > 0 /\ attemptLog[n].ev = "call" /\ attemptLog[n].ok)
       => /\ aiResult.state = "returned"
          /\ aiResult.defined = attemptLog[n].body.hasReviews
          /\ aiResult.reviews = attemptLog[n].body.reviews
          /\ pc = "analyze"
  /\ aiResult.state = "returned" => (n > 0 /\ attemptLog[n].ev = "call" /\ attemptLog[n].ok)
  /\ (n = 5 /\ ~attemptLog[n].ok)
       => /\ aiResult.state = "thrown"
          /\ failure = lastError
          /\ lastError.attempt = 3
          /\ status = "failed"
          /\ pc = "done"
  /\ aiResult.state = "thrown" => (n = 5 /\ \A i \in CallsIn(attemptLog) : ~attemptLog[i].ok)
  /\ (n > 0 /\ n < 5 /\ attemptLog[n].ev = "call" /\ ~attemptLog[n].ok) => pc = "delay"

\* three failed attempts, two delays, the error thrown
C1_Witness ==
  /\ aiResult.state = "thrown"
  /\ Len(attemptLog) = 5
  /\ status = "failed"

\* the comments of the createReview calls made in this run
SubmittedIn(k) == { reviewCalls[k].comments[i] : i \in 1..Len(reviewCalls[k].comments) }
Submitted == UNION { SubmittedIn(k) : k \in 1..Len(reviewCalls) }

\* the platform holds a comment at this (path, line, side) in a thread that is
\* not outdated
HeldLive(key) ==
  \E t \in 1..Len(threads) :
    /\ ~threads[t].isOutdated
    /\ threads[t].diffSide = key[3]
    /\ \E n \in 1..Len(threads[t].comments) :
         /\ threads[t].comments[n].path = key[1]
         /\ threads[t].comments[n].actualHeadLine = key[2]
         /\ threads[t].comments[n].originalBaseLine = key[2]

\* C2: no createReview call of a run contains a comment at a (path, line,
\* side) that an earlier run published and the platform still holds in a
\* thread that is not outdated.
C2_NoDuplicateAcrossRuns ==
  \A c \in Submitted : ~(KeyOf(c) \in publishedEarlier /\ HeldLive(KeyOf(c)))

\* the same, for the runs in which the listing of the threads succeeded
C2_NoDuplicateWhenListed ==
  listed = "ok" => C2_NoDuplicateAcrossRuns

SameKey(c, e) == c.path = e.path /\ c.line = e.line /\ c.side = e.side

NotExisting(c) == \A i \in 1..Len(existingComments) : ~SameKey(c, existingComments[i])

\* C3: the duplicate filter returns, in their order, exactly the candidates
\* whose (path, line, side) equals that of no existing comment, whatever the
\* bodies are.
C3_DuplicateFilter ==
  listed # "no" => uniqueComments = SelectSeq(comments, NotExisting)

\* a candidate at an existing location and side is dropped, and one at the
\* path and line of an existing comment but on the other side is kept
C3_Witness ==
  /\ listed = "ok"
  /\ \E i \in 1..Len(comments) : ~NotExisting(comments[i])
  /\ \E i \in 1..Len(uniqueComments), j \in 1..Len(existingComments) :
       /\ uniqueComments[i].path = existingComments[j].path
       /\ uniqueComments[i].line = existingComments[j].line
       /\ uniqueComments[i].side # existingComments[j].side

\* C4: when the createReview call of a batch fails, every comment of the batch
\* is then submitted in a call of its own, the failure is not propagated, and
\* every batch is submitted.
C4_BatchFallback ==
  pc = "done" =>
    /\ \A k \in 1..Len(reviewCalls) :
         ~reviewCalls[k].ok =>
           \A c \in SubmittedIn(k) :
             \E j \in (k + 1)..Len(reviewCalls) : reviewCalls[j].comments = << c >>
    /\ failure.kind # "createReview"
    /\ \A b \in 1..Len(commentBatches) :
         \E k \in 1..Len(reviewCalls) : reviewCalls[k].comments = commentBatches[b]

\* the entry of the attempt that was made last
LastAttempt(log) == log[Len(log)]

\* C5 as stated: a model call that completes with an empty body or with one
\* that is no JSON returns no review and no error: the attempt is not retried,
\* nothing is thrown, the file contributes no comment and the next file is next.
C5_EmptyOrUnparsableIsEmpty ==
  [][ (pc = "call" /\ LastAttempt(attemptLog').body.kind \in {"missing", "blank", "garbage"})
        => /\ aiResult'.state = "returned"
           /\ aiResult'.reviews = <<>>
           /\ lastError' = lastError
           /\ status' = status
           /\ comments' = comments
           /\ fileIdx' = fileIdx + 1
           /\ pc' = "analyze" ]_vars

\* C5, amended: a call that completes with a missing or blank body returns no
\* review and no error, is not retried, and the next file is next; a call that
\* completes with a body that is no JSON is a failed attempt: it is retried
\* after the delay, and thrown as the error of the run after the third attempt.
C5_EmptyIsEmptyUnparsableRetried ==
  [][ pc = "call" =>
        /\ LastAttempt(attemptLog').body.kind \in {"missing", "blank"}
             => /\ aiResult'.state = "returned"
                /\ aiResult'.reviews = <<>>
                /\ lastError' = lastError
                /\ status' = status
                /\ comments' = comments
                /\ fileIdx' = fileIdx + 1
                /\ pc' = "analyze"
        /\ LastAttempt(attemptLog').body.kind = "garbage"
             => /\ aiResult'.state # "returned"
                /\ lastError' = [kind |-> "parse", attempt |-> attempt]
                /\ comments' = comments
                /\ fileIdx' = fileIdx
                /\ attempt < 3 => (pc' = "delay" /\ status' = status)
                /\ attempt = 3 => (pc' = "done" /\ status' = "failed" /\ failure' = lastError') ]_vars

\* an unparsable body was retried, and the blank body of the second attempt
\* ended the loop without a review
C5_Witness ==
  /\ Len(attemptLog) = 3
  /\ attemptLog[1].body.kind = "garbage"
  /\ attemptLog[3].body.kind = "blank"
  /\ aiResult.state = "returned"
  /\ aiResult.reviews = <<>>
  /\ status = "ok"

\* C6: when the listing of the existing review threads fails the run has the
\* failed status and makes no createReview call.
C6_ListingFailureStopsRun ==
  listed = "failed" => (status = "failed" /\ reviewCalls = <<>>)

\* the file getAIResponse has just returned for, and the comments it has in
\* the list analyzeCode collects
ReturnedFor == filteredDiff[fileIdx - 1].to
IsOfFile(c) == c.path = ReturnedFor
CommentsOfFile == SelectSeq(comments, IsOfFile)

\* C7: a comment made from a candidate has side RIGHT exactly when the
\* candidate's changeType is "+" and LEFT exactly when it is "-"; a candidate
\* with another changeType makes no comment.
C7_SideFromChangeType ==
  aiResult.state = "returned" =>
    \A i \in 1..Len(CommentsOfFile), j \in 1..Len(aiResult.reviews) :
      LET c == CommentsOfFile[i]
          r == aiResult.reviews[j]
      IN (c.body = r.reviewComment /\ c.line = r.lineNumber)
           => /\ (c.side = "RIGHT") <=> (r.changeType = "+")
              /\ (c.side = "LEFT") <=> (r.changeType = "-")

PositiveInteger(x) == x.tag = "int" /\ x.v > 0
HasValidLine(r) == PositiveInteger(r.lineNumber)

\* C8: createComment drops exactly the candidates whose lineNumber is no
\* positive integer and returns, in the order of the input, one comment per
\* other candidate, with line = lineNumber and body = reviewComment.
C8_InvalidLinesDropped ==
  aiResult.state = "returned" =>
    LET kept == SelectSeq(aiResult.reviews, HasValidLine) IN
    /\ Len(CommentsOfFile) = Len(kept)
    /\ \A i \in 1..Len(kept) :
         /\ CommentsOfFile[i].line = kept[i].lineNumber
         /\ CommentsOfFile[i].body = kept[i].reviewComment

CeilDiv(n, d) == (n + d - 1) \div d

RECURSIVE Concat(_)
Concat(seqs) == IF seqs = <<>> THEN <<>> ELSE Head(seqs) \o Concat(Tail(seqs))

CallComments == [k \in 1..Len(reviewCalls) |-> reviewCalls[k].comments]

\* C9: a run that has filtered N comments ends with exactly ceil(N/50)
\* createReview calls, each with event COMMENT and 1 to 50 comments, whose
\* comments, in the order of the calls, are the filtered comments.
C9_BatchesCoverAll ==
  (pc = "done" /\ listed # "no") =>
    /\ Len(reviewCalls) = CeilDiv(Len(uniqueComments), 50)
    /\ \A k \in 1..Len(reviewCalls) :
         /\ reviewCalls[k].event = "COMMENT"
         /\ Len(reviewCalls[k].comments) \in 1..50
    /\ Concat(CallComments) = uniqueComments

Deleted(file) == ~file.hasTo \/ file.to = "/dev/null"

ReviewablePaths ==
  { filteredDiff[i].to : i \in { j \in 1..Len(filteredDiff) : ~Deleted(filteredDiff[j]) } }

SeqSet(q) == { q[i] : i \in 1..Len(q) }

\* C10: no prompt is built and no model call is made for a file whose toPath
\* is absent or "/dev/null", and no collected, filtered or submitted comment
\* has such a file as its path.
C10_DeletedNeverReviewed ==
  /\ \A f \in prompted \cup modelCalls : ~Deleted(f)
  /\ \A c \in SeqSet(comments) \cup SeqSet(uniqueComments) \cup Submitted :
       c.path # "/dev/null" /\ c.path \in ReviewablePaths

\* a deleted file was passed over, and comments of another file were submitted
C10_Witness ==
  /\ \E i \in 1..Len(filteredDiff) : i < fileIdx /\ Deleted(filteredDiff[i])
  /\ modelCalls # {}
  /\ reviewCalls # <<>>

\* the files of the diff after the one analyzeCode is at
LaterFiles == { filteredDiff[i] : i \in (fileIdx + 1)..Len(filteredDiff) }

\* C11: when the model call of a file has failed 3 times the run is over: it
\* has the failed status, the model was called for no later file, the review
\* threads were not listed and no createReview call was made, and nothing of
\* this stays otherwise, since the only step left is the start of another run.
C11_ExhaustedRetriesFatal ==
  /\ [](aiResult.state = "thrown"
          => /\ pc = "done"
             /\ status = "failed"
             /\ failure = lastError
             /\ modelCalls \cap LaterFiles = {}
             /\ listed = "no"
             /\ existingComments = <<>>
             /\ reviewCalls = <<>>)
  /\ [][aiResult.state = "thrown" => runNo' = runNo + 1]_vars

\* the retries are exhausted on the first of two files to review
C11_Witness ==
  /\ aiResult.state = "thrown"
  /\ fileIdx = 1
  /\ Len(filteredDiff) = 2
  /\ ~Skipped(filteredDiff[2])

\* the retries are exhausted after comments of an earlier file were collected
C11_WitnessCollected ==
  /\ aiResult.state = "thrown"
  /\ comments # <<>>

\* the files of the diff before the one analyzeCode is at
EarlierFiles == { filteredDiff[i] : i \in 1..Min(fileIdx - 1, Len(filteredDiff)) }

\* C12: the files are taken one at a time in the order of the diff, and
\* nothing is submitted early: when a createReview call has been made, the
\* loop over the files has ended, the existing threads have been asked for and
\* the duplicate filter has run, and what is submitted is what the filter
\* left; no model call is made once the listing or the submitting has begun.
C12_NothingEmittedEarly ==
  /\ [](/\ reviewCalls # <<>>
            => /\ fileIdx > Len(filteredDiff)
               /\ listed # "no"
               /\ pc \in {"publish", "done"}
               /\ uniqueComments = filterUnique(comments, existingComments)
               /\ Submitted \subseteq SeqSet(uniqueComments)
        /\ pc \in {"call", "delay"}
            => /\ modelCalls \subseteq EarlierFiles \cup { filteredDiff[fileIdx] }
               /\ \A f \in EarlierFiles : Skipped(f) \/ f \in modelCalls
               /\ listed = "no"
               /\ reviewCalls = <<>>)
  /\ [][runNo' = runNo
          => /\ fileIdx' \in {fileIdx, fileIdx + 1}
             /\ pc = "call" => /\ modelCalls' = modelCalls \cup { filteredDiff[fileIdx] }
                               /\ listed' = "no"
                               /\ reviewCalls' = <<>>
             /\ pc # "call" => modelCalls' = modelCalls
             /\ (listed # "no" \/ reviewCalls # <<>>) => pc' \notin {"analyze", "call", "delay"}
             /\ reviewCalls' # reviewCalls
                  => (pc = "publish" /\ listed # "no" /\ fileIdx > Len(filteredDiff)) ]_vars

\* two files were reviewed, and then the comments of both were submitted
C12_Witness ==
  /\ Cardinality(modelCalls) = 2
  /\ reviewCalls # <<>>
  /\ \E c, d \in Submitted : c.path # d.path

\* the line of a comment node on the side of its thread: the line of the base
\* for LEFT, the line of the head for RIGHT
LineOnSide(t, node) ==
  IF t.diffSide = "LEFT" THEN node.originalBaseLine ELSE node.actualHeadLine

\* the comments of the listed threads that are to give a key: (thread, node)
\* index pairs of the threads that are not outdated and the nodes whose line
\* on the thread's side is present
Anchored(listing) ==
  { p \in (1..Len(listing)) \X (1..CommentPageSize) :
      /\ p[2] <= Len(listing[p[1]].comments)
      /\ ~listing[p[1]].isOutdated
      /\ LineOnSide(listing[p[1]], listing[p[1]].comments[p[2]]).tag # "null" }

KeyText(path, line, side) == path \o ":" \o ToString(line.v) \o ":" \o side

\* C13: after a listing that succeeded, the set of existing keys holds the key
\* path:line:side of every comment of every listed thread that is not
\* outdated and has a line on the thread's side (the base line for LEFT, the
\* head line for RIGHT), one existing comment each, and no other key; outdated
\* threads and comments without that line give none, resolved or not.
C13_ExistingKeys ==
  (listed = "ok" /\ reviewCalls = <<>>) =>
    LET listing == gqlResponse(threads) IN
    /\ existingCommentsSet(existingComments)
         = { KeyText(listing[p[1]].comments[p[2]].path,
                     LineOnSide(listing[p[1]], listing[p[1]].comments[p[2]]),
                     listing[p[1]].diffSide) : p \in Anchored(listing) }
    /\ Len(existingComments) = Cardinality(Anchored(listing))

\* an outdated thread and a comment without a base line gave no key, a
\* resolved LEFT thread and a RIGHT thread gave theirs
C13_Witness ==
  /\ listed = "ok"
  /\ reviewCalls = <<>>
  /\ \E t \in 1..Len(threads) : threads[t].isOutdated
  /\ \E t \in 1..Len(threads) :
       /\ threads[t].isResolved /\ ~threads[t].isOutdated /\ threads[t].diffSide = "LEFT"
       /\ \E n \in 1..Len(threads[t].comments) : threads[t].comments[n].originalBaseLine.tag = "null"
  /\ "lib.ts:7:LEFT" \in existingCommentsSet(existingComments)
  /\ "lib.ts:3:RIGHT" \in existingCommentsSet(existingComments)
  /\ "lib.ts:3:LEFT" \notin existingCommentsSet(existingComments)
  /\ "app.py:7:LEFT" \notin existingCommentsSet(existingComments)

====
